---- MODULE Spec2Model ----
(***************************************************************************)
(* QueryCache and the three orchestration functions of                    *)
(* src/ai_tutor/src/ai_engine_optimized.py, with the request threads of   *)
(* the FastAPI routes as concurrent callers.                              *)
(*                                                                         *)
(* Time is counted in ticks.  The durations of the code (ttl_seconds,     *)
(* lock_ttl, lock_timeout / poll_interval) are parameters there; here     *)
(* they are small numbers of ticks or polls.  An expired key of the       *)
(* shared store is removed by the tick that expires it.  Any command      *)
(* sent to the shared store either answers or raises (ok = FALSE).        *)
(***************************************************************************)
EXTENDS Integers, Sequences, FiniteSets, TLC

\* ---------------------------------------------------------------- bounds
NumCallers == 2      \* request threads
MaxTime == 2         \* ticks of the clock
TtlSeconds == 2      \* QueryCache.ttl_seconds, in ticks
LockTtlBase == 1     \* lock_ttl=30 in ticks; lock_ttl=60 is twice that
MaxPolls == 2        \* lock_timeout / poll_interval
MaxCalls == 2        \* requests served in one run
MaxQuestions == 6    \* filtered questions of one revision call

Callers == 1..NumCallers
Ops == {"summarize", "revision", "ask"}
Queries == {"1"}
Texts == {"X", "Y"}

\* ---------------------------------------------------------------- values
None == [t |-> "None"]
NoEntry == [t |-> "absent"]

Bilingual(e) == [t |-> "dict", english |-> e, swahili |-> "sw-" \o e]
NoContent(q) ==
    [t |-> "dict",
     english |-> "No usable content found for Chapter " \o q \o ".",
     swahili |-> ""]
EmptyList == [t |-> "list", items |-> <<>>]
Answers(e) ==
    [t |-> "list",
     items |-> << [question_text |-> "Q", answer |-> Bilingual(e)] >>]

Results ==
    {Bilingual(e) : e \in Texts} \cup {NoContent(q) : q \in Queries}
        \cup {EmptyList} \cup {Answers(e) : e \in Texts}

\* Python truth value of a result or of a stored string
Truthy(v) ==
    CASE v.t = "None" -> FALSE
      [] v.t = "list" -> Len(v.items) > 0
      [] v.t = "dict" -> TRUE
      [] OTHER -> FALSE

JsonDict(d) ==
    "{\"english\": \"" \o d.english \o "\", \"swahili\": \"" \o d.swahili \o "\"}"

JsonItem(i) ==
    "{\"question_text\": \"" \o i.question_text \o "\", \"answer\": "
        \o JsonDict(i.answer) \o "}"

json_dumps(v) ==
    CASE v.t = "dict" -> JsonDict(v)
      [] v.t = "list" ->
            IF Len(v.items) = 0 THEN "[]" ELSE "[" \o JsonItem(v.items[1]) \o "]"
      [] OTHER -> "null"

JsonError == [t |-> "JSONDecodeError"]

json_loads(s) ==
    IF \E v \in Results : json_dumps(v) = s
    THEN CHOOSE v \in Results : json_dumps(v) = s
    ELSE IF s = "null" THEN None ELSE JsonError

\* ---------------------------------------------------------------- keys
Md5(s) == "md5(" \o s \o ")"
hash_key(args) == Md5(args[1] \o "|" \o args[2])
redis_key(key) == "ai_cache:" \o key
redis_lock_key(key) == redis_key(key) \o ":lock"
mem_lock_key(key) == "lock:" \o key

ArgTuples == {<<o, q>> : o \in Ops, q \in Queries}
HashKeys == {hash_key(a) : a \in ArgTuples}
RedisKeys == {redis_key(k) : k \in HashKeys} \cup {redis_lock_key(k) : k \in HashKeys}
MemKeys == HashKeys \cup {mem_lock_key(k) : k \in HashKeys}

\* lock_ttl passed by the orchestration functions
lock_ttl(op) == IF op = "revision" THEN 2 * LockTtlBase ELSE LockTtlBase

VARIABLES
    use_redis,   \* QueryCache._use_redis
    now,         \* time.time() and the store's clock
    redis,       \* the shared store: key -> NoEntry or [val, exp]
    mem_cache,   \* QueryCache._mem_cache: key -> NoEntry or [result, timestamp]
    thread,      \* each request thread: its position and the locals of its call
    calls,       \* requests received so far
    holders,     \* callers whose acquire_lock returned true on the present lock record
    probe,       \* two argument tuples handed to _hash_key, and their keys
    startup,     \* what the constructor met: the URL setting and the ping
    gather       \* the per-question tasks of one revision call and their semaphore

vars == <<use_redis, now, redis, mem_cache, thread, calls, holders, probe, startup,
          gather>>

\* pc:       position in the orchestration function
\* op,query: the function called and its argument
\* phase:    1 in the first get(), 2 in the get() after a failed acquire_lock
\* got_lock: got_lock of the orchestration function
\* acq_free, acq_err: what the acquire_lock that has just returned met: no lock
\*           record for the key, an error of the store (both forgotten at the
\*           caller's next step)
\* waited:   polls slept by the current get()
\* slept:    polls slept by all the get() calls of this function call so far
\* result:   the value computed
\* early:    an early return is under way (set() outside try/finally)
\* exc:      an exception is propagating through the finally block
\* ret:      the value returned to the route
\* served:   the get() whose cached value was returned (1 or 2), 0 if none was
Idle ==
    [pc |-> "idle", op |-> "-", query |-> "-", phase |-> 1, got_lock |-> FALSE,
     acq_free |-> FALSE, acq_err |-> FALSE, waited |-> 0, result |-> None, early |-> FALSE,
     exc |-> FALSE, ret |-> None, slept |-> 0, served |-> 0]

\* one key for every call, whatever its arguments
KeyOfAll(t) == hash_key(<<"summarize", "1">>)

Key(t) == hash_key(<<t.op, t.query>>)

\* no call of _hash_key under observation
NoProbe == [a |-> <<>>, b |-> <<>>, ka |-> "", kb |-> ""]

\* what QueryCache.__init__ can meet: no URL configured (or no client library),
\* a URL whose from_url/ping raises, a URL whose ping answers
Startups == {"no_url", "ping_fails", "ping_ok"}

\* a constructor that trusts the URL without the ping
use_redis_unprobed(s) == s # "no_url"

\* _use_redis as __init__ leaves it
use_redis_init(s) == s = "ping_ok"

\* no revision call has reached its per-question tasks
NoGather ==
    [n |-> 0, state |-> "idle", sem |-> 0, waiters |-> <<>>,
     task |-> [i \in 1..MaxQuestions |-> "off"],
     invoked |-> [i \in 1..MaxQuestions |-> 0],
     results |-> <<>>]

Init ==
    /\ startup \in Startups
    /\ use_redis = use_redis_init(startup)
    /\ now = 0
    /\ redis = [k \in RedisKeys |-> NoEntry]
    /\ mem_cache = [k \in MemKeys |-> NoEntry]
    /\ thread = [c \in Callers |-> Idle]
    /\ calls = 0
    /\ holders = [k \in HashKeys |-> {}]
    /\ probe = NoProbe
    /\ gather = NoGather

\* ---------------------------------------------------------------- store primitives
EmptyDict == [t |-> "emptydict"]

\* a write that stores no payload
EntryBlank(v, exp) == [val |-> "null", exp |-> exp]

Entry(v, exp) == [val |-> v, exp |-> exp]

\* a pair stamped later than the time of its set()
MemEntryLate(r, ts) == [result |-> r, timestamp |-> ts + 1]

MemEntry(r, ts) == [result |-> r, timestamp |-> ts]

\* a SET without NX: it writes the key whether or not it exists
SetAlwaysCreates(r, k) == TRUE

\* SET key value NX: TRUE when the call creates the key
SetNxCreates(r, k) == r[k] = NoEntry

\* native expiry of the shared store at time t
Expire(r, t) ==
    [k \in RedisKeys |-> IF r[k] # NoEntry /\ r[k].exp <= t THEN NoEntry ELSE r[k]]

\* the entry read at time t is still fresh
Fresh(e, t) == t - e.timestamp < TtlSeconds

\* the lock record of hash key k exists in store state <<r, m>>
LockIn(r, m, k) ==
    IF use_redis THEN r[redis_lock_key(k)] # NoEntry ELSE m[mem_lock_key(k)] # NoEntry

LockPresent(k) == LockIn(redis, mem_cache, k)

\* holders after the store moved to <<r, m>>: a removed record has no holder
Held(r, m) == [k \in HashKeys |-> IF LockIn(r, m, k) THEN holders[k] ELSE {}]

\* holders of hash key k once caller c was told it created the record
Grant(k, c, fresh) ==
    [holders EXCEPT ![k] = IF fresh THEN {c} ELSE holders[k] \cup {c}]

\* ---------------------------------------------------------------- positions
GetStart == IF use_redis THEN "g_first" ELSE "m_in"
AcqStart == IF use_redis THEN "acq" ELSE "a_in"
SetStart == IF use_redis THEN "s_set" ELSE "s_mem"
RelStart == IF use_redis THEN "rel" ELSE "r_in"

At(c, p) == thread[c].pc = p
Becomes(c, t) == thread' = [thread EXCEPT ![c] = t]
Goto(c, p) == Becomes(c, [thread[c] EXCEPT !.pc = p])

\* the function returns v: its locals are gone, the route holds the value
Done(t, v) == [Idle EXCEPT !.pc = "done", !.op = t.op, !.query = t.query, !.ret = v]

\* an exception leaves the function
Raised(t) == [Idle EXCEPT !.pc = "raised", !.op = t.op, !.query = t.query]

\* an error of the shared store that no except clause caught leaves the function
StoreError == [t |-> "ConnectionError"]
StoreRaised(t) == [Raised(t) EXCEPT !.ret = StoreError]

\* an orchestration function that ignores what its get() returned
GetFinishMiss(t, x) == [t EXCEPT !.pc = IF t.phase = 1 THEN AcqStart ELSE "compute"]

\* get() returns x to the orchestration function: "if cached: return cached",
\* else acquire_lock (first get) or the computation (second get)
GetFinish(t, x) ==
    IF Truthy(x) THEN [Done(t, x) EXCEPT !.served = t.phase]
    ELSE [t EXCEPT !.pc = IF t.phase = 1 THEN AcqStart ELSE "compute"]

\* json.loads without the try/except around it
DecodeUnguarded(s) == json_loads(s)

\* json.loads inside try/except: an undecodable value is reported as None
Decode(s) == IF json_loads(s) = JsonError THEN None ELSE json_loads(s)

\* the locals of t at the step after acquire_lock returned
Past(t) == [t EXCEPT !.acq_free = FALSE, !.acq_err = FALSE]

\* get() on the shared store at its first read: the decoded value, or None
redis_get_value(r, rk) == IF r[rk] # NoEntry THEN Decode(r[rk].val) ELSE None

\* get() on the local store at time t: the result of a fresh pair, or None
mem_get_value(m, k, t) == IF m[k] # NoEntry /\ Fresh(m[k], t) THEN m[k].result ELSE None

\* what get() returns for hash key k when it runs alone on store <<r, m>> at time t
\* and the entry, if any, is there at its first read
get_value(r, m, k, t) ==
    IF use_redis THEN redis_get_value(r, redis_key(k)) ELSE mem_get_value(m, k, t)

\* acquire_lock() returned g: "if not got_lock: cached2 = get()"
AcqFinish(t, g) ==
    [t EXCEPT !.got_lock = g,
              !.phase = IF g THEN 1 ELSE 2,
              !.pc = IF g THEN "compute" ELSE GetStart]

\* set() returned: an early return leaves at once, the try block runs its finally
SetFinish(t) ==
    IF ~t.early /\ t.got_lock THEN [t EXCEPT !.pc = RelStart] ELSE Done(t, t.result)

\* release_lock() returned inside finally: the exception or the return goes on
RelFinish(t) == IF t.exc THEN Raised(t) ELSE Done(t, t.result)

\* ---------------------------------------------------------------- callers
Call(c) ==
    /\ At(c, "idle")
    /\ calls < MaxCalls
    /\ calls' = calls + 1
    /\ \E o \in Ops, q \in Queries :
        Becomes(c, [Idle EXCEPT !.pc = GetStart, !.op = o, !.query = q])
    /\ UNCHANGED <<use_redis, now, redis, mem_cache, holders>>
    /\ UNCHANGED <<probe, startup, gather>>

\* get(), shared store: the first read (an error of the store is not caught)
G_First(c) ==
    LET t == Past(thread[c])
        rk == redis_key(Key(t)) IN
    /\ At(c, "g_first")
    /\ \E ok \in BOOLEAN : Becomes(c,
         IF ~ok THEN StoreRaised(t)
         ELSE IF redis[rk] # NoEntry THEN GetFinish(t, redis_get_value(redis, rk))
         ELSE IF 0 < MaxPolls THEN [t EXCEPT !.pc = "g_poll", !.waited = 0]
         ELSE GetFinish(t, None))
    /\ UNCHANGED <<use_redis, now, redis, mem_cache, calls, holders>>
    /\ UNCHANGED <<probe, startup, gather>>

\* get(), shared store: the read at the head of the poll loop
G_Poll(c) ==
    LET t == thread[c]
        rk == redis_key(Key(t)) IN
    /\ At(c, "g_poll")
    /\ \E ok \in BOOLEAN : Becomes(c,
         IF ~ok THEN StoreRaised(t)
         ELSE IF redis[rk] # NoEntry THEN GetFinish(t, redis_get_value(redis, rk))
         ELSE [t EXCEPT !.pc = "g_lock"])
    /\ UNCHANGED <<use_redis, now, redis, mem_cache, calls, holders>>
    /\ UNCHANGED <<probe, startup, gather>>

\* a poll loop that never looks at the lock record
LockNeverGone(r, lk) == FALSE

\* "not self._redis.exists(lock_key)"
LockGone(r, lk) == r[lk] = NoEntry

\* get(), shared store: "if not exists(lock_key): break", else sleep, count and
\* test the loop condition
G_Lock(c) ==
    LET t == thread[c] IN
    /\ At(c, "g_lock")
    /\ \E ok \in BOOLEAN : Becomes(c,
         IF ~ok THEN StoreRaised(t)
         ELSE IF LockGone(redis, redis_lock_key(Key(t))) THEN GetFinish(t, None)
         ELSE IF t.waited + 1 < MaxPolls
              THEN [t EXCEPT !.pc = "g_poll", !.waited = t.waited + 1,
                             !.slept = t.slept + 1]
              ELSE GetFinish([t EXCEPT !.waited = t.waited + 1,
                                       !.slept = t.slept + 1], None))
    /\ UNCHANGED <<use_redis, now, redis, mem_cache, calls, holders>>
    /\ UNCHANGED <<probe, startup, gather>>

\* get(), local store: "if key in self._mem_cache"
M_In(c) ==
    LET t == Past(thread[c]) IN
    /\ At(c, "m_in")
    /\ Becomes(c,
         IF mem_cache[Key(t)] # NoEntry THEN [t EXCEPT !.pc = "m_read"]
         ELSE GetFinish(t, None))
    /\ UNCHANGED <<use_redis, now, redis, mem_cache, calls, holders>>
    /\ UNCHANGED <<probe, startup, gather>>

\* get(), local store: read the pair and compare its age (KeyError if it is gone)
M_Read(c) ==
    LET t == thread[c] IN
    /\ At(c, "m_read")
    /\ Becomes(c,
         IF mem_cache[Key(t)] = NoEntry THEN Raised(t)
         ELSE IF Fresh(mem_cache[Key(t)], now)
              THEN GetFinish(t, mem_cache[Key(t)].result)
              ELSE [t EXCEPT !.pc = "m_del"])
    /\ UNCHANGED <<use_redis, now, redis, mem_cache, calls, holders>>
    /\ UNCHANGED <<probe, startup, gather>>

\* get(), local store: "del self._mem_cache[key]" (KeyError if it is gone)
M_Del(c) ==
    LET t == thread[c] IN
    /\ At(c, "m_del")
    /\ IF mem_cache[Key(t)] = NoEntry
       THEN Becomes(c, Raised(t)) /\ UNCHANGED mem_cache
       ELSE /\ mem_cache' = [mem_cache EXCEPT ![Key(t)] = NoEntry]
            /\ Becomes(c, GetFinish(t, None))
    /\ UNCHANGED <<use_redis, now, redis, calls, holders>>
    /\ UNCHANGED <<probe, startup, gather>>

\* acquire_lock(), shared store: SET lock_key "1" NX EX lock_ttl, False on an error
Acq(c) ==
    LET t == thread[c]
        lk == redis_lock_key(Key(t)) IN
    /\ At(c, "acq")
    /\ \E ok \in BOOLEAN :
        IF ok /\ SetNxCreates(redis, lk)
        THEN /\ redis' = [redis EXCEPT ![lk] = Entry("1", now + lock_ttl(t.op))]
             /\ holders' = Grant(Key(t), c, redis[lk] = NoEntry)
             /\ Becomes(c, AcqFinish([t EXCEPT !.acq_free = (redis[lk] = NoEntry)], TRUE))
        ELSE /\ Becomes(c, AcqFinish([t EXCEPT !.acq_err = ~ok,
                                               !.acq_free = (redis[lk] = NoEntry)],
                                     FALSE))
             /\ UNCHANGED <<redis, holders>>
    /\ UNCHANGED <<use_redis, now, mem_cache, calls>>
    /\ UNCHANGED <<probe, startup, gather>>

\* acquire_lock(), local store: "if mem_lock_key in self._mem_cache: return False"
A_In(c) ==
    LET t == thread[c] IN
    /\ At(c, "a_in")
    /\ Becomes(c,
         IF mem_cache[mem_lock_key(Key(t))] # NoEntry THEN AcqFinish(t, FALSE)
         ELSE [t EXCEPT !.pc = "a_ins", !.acq_free = TRUE])
    /\ UNCHANGED <<use_redis, now, redis, mem_cache, calls, holders>>
    /\ UNCHANGED <<probe, startup, gather>>

\* acquire_lock(), local store: insert the lock pair, return True
A_Ins(c) ==
    LET t == thread[c]
        lk == mem_lock_key(Key(t)) IN
    /\ At(c, "a_ins")
    /\ mem_cache' = [mem_cache EXCEPT ![lk] = MemEntry(EmptyDict, now)]
    /\ holders' = Grant(Key(t), c, mem_cache[lk] = NoEntry)
    /\ Becomes(c, AcqFinish(t, TRUE))
    /\ UNCHANGED <<use_redis, now, redis, calls>>
    /\ UNCHANGED <<probe, startup, gather>>

\* what the retrieval and completion calls of an orchestration function can do:
\* a document fetch before the try block raises, finds nothing usable, or the
\* completion inside try/finally raises or yields a text
Outcomes(o) ==
    IF o = "ask" THEN {"llm_raises", "ok"}
    ELSE {"fetch_raises", "empty", "llm_raises", "ok"}

Computed(o, q, outcome, e) ==
    IF outcome = "empty"
    THEN (IF o = "summarize" THEN NoContent(q) ELSE EmptyList)
    ELSE (IF o = "revision" THEN Answers(e) ELSE Bilingual(e))

\* the computation, from the first fetch to the value handed to set()
Compute(c) ==
    LET t == Past(thread[c]) IN
    /\ At(c, "compute")
    /\ \E outcome \in Outcomes(t.op), e \in Texts :
        Becomes(c,
          CASE outcome = "fetch_raises" -> Raised(t)
            [] outcome = "llm_raises" ->
                 IF t.got_lock THEN [t EXCEPT !.pc = RelStart, !.exc = TRUE]
                 ELSE Raised(t)
            [] OTHER ->
                 [t EXCEPT !.pc = SetStart,
                           !.early = (outcome = "empty"),
                           !.result = Computed(t.op, t.query, outcome, e)])
    /\ UNCHANGED <<use_redis, now, redis, mem_cache, calls, holders>>
    /\ UNCHANGED <<probe, startup, gather>>

\* set(), shared store: SET rk json EX ttl_seconds; the fallback on an error
S_Set(c) ==
    LET t == thread[c] IN
    /\ At(c, "s_set")
    /\ \E ok \in BOOLEAN :
        IF ok
        THEN /\ redis' = [redis EXCEPT ![redis_key(Key(t))] =
                              Entry(json_dumps(t.result), now + TtlSeconds)]
             /\ Goto(c, "s_del")
             /\ UNCHANGED mem_cache
        ELSE /\ mem_cache' = [mem_cache EXCEPT ![Key(t)] = MemEntry(t.result, now)]
             /\ Becomes(c, SetFinish(t))
             /\ UNCHANGED redis
    /\ UNCHANGED <<use_redis, now, calls, holders>>
    /\ UNCHANGED <<probe, startup, gather>>

\* set(), shared store: DELETE rk:lock; the fallback on an error
S_Del(c) ==
    LET t == thread[c] IN
    /\ At(c, "s_del")
    /\ \E ok \in BOOLEAN :
        IF ok
        THEN /\ redis' = [redis EXCEPT ![redis_lock_key(Key(t))] = NoEntry]
             /\ UNCHANGED mem_cache
        ELSE /\ mem_cache' = [mem_cache EXCEPT ![Key(t)] = MemEntry(t.result, now)]
             /\ UNCHANGED redis
    /\ holders' = Held(redis', mem_cache')
    /\ Becomes(c, SetFinish(t))
    /\ UNCHANGED <<use_redis, now, calls>>
    /\ UNCHANGED <<probe, startup, gather>>

\* set(), local store
S_Mem(c) ==
    LET t == thread[c] IN
    /\ At(c, "s_mem")
    /\ mem_cache' = [mem_cache EXCEPT ![Key(t)] = MemEntry(t.result, now)]
    /\ Becomes(c, SetFinish(t))
    /\ UNCHANGED <<use_redis, now, redis, calls, holders>>
    /\ UNCHANGED <<probe, startup, gather>>

\* release_lock(), shared store: DELETE lock_key, errors ignored
Rel(c) ==
    LET t == thread[c] IN
    /\ At(c, "rel")
    /\ \E ok \in BOOLEAN :
        redis' = IF ok THEN [redis EXCEPT ![redis_lock_key(Key(t))] = NoEntry]
                 ELSE redis
    /\ holders' = Held(redis', mem_cache)
    /\ Becomes(c, RelFinish(t))
    /\ UNCHANGED <<use_redis, now, mem_cache, calls>>
    /\ UNCHANGED <<probe, startup, gather>>

\* release_lock(), local store: "if mem_lock_key in self._mem_cache"
R_In(c) ==
    LET t == thread[c] IN
    /\ At(c, "r_in")
    /\ Becomes(c,
         IF mem_cache[mem_lock_key(Key(t))] # NoEntry THEN [t EXCEPT !.pc = "r_del"]
         ELSE RelFinish(t))
    /\ UNCHANGED <<use_redis, now, redis, mem_cache, calls, holders>>
    /\ UNCHANGED <<probe, startup, gather>>

\* release_lock(), local store: "del self._mem_cache[mem_lock_key]" (KeyError if gone)
R_Del(c) ==
    LET t == thread[c]
        lk == mem_lock_key(Key(t)) IN
    /\ At(c, "r_del")
    /\ IF mem_cache[lk] = NoEntry
       THEN Becomes(c, Raised(t)) /\ UNCHANGED <<mem_cache, holders>>
       ELSE /\ mem_cache' = [mem_cache EXCEPT ![lk] = NoEntry]
            /\ holders' = Held(redis, mem_cache')
            /\ Becomes(c, RelFinish(t))
    /\ UNCHANGED <<use_redis, now, redis, calls>>
    /\ UNCHANGED <<probe, startup, gather>>

\* the route got its answer or its error; the thread serves the next request
Return(c) ==
    /\ thread[c].pc \in {"done", "raised"}
    /\ Becomes(c, Idle)
    /\ UNCHANGED <<use_redis, now, redis, mem_cache, calls, holders>>
    /\ UNCHANGED <<probe, startup, gather>>

\* ---------------------------------------------------------------- environment
Tick ==
    /\ now < MaxTime
    /\ now' = now + 1
    /\ redis' = Expire(redis, now + 1)
    /\ holders' = Held(redis', mem_cache)
    /\ UNCHANGED <<use_redis, mem_cache, thread, calls>>
    /\ UNCHANGED <<probe, startup, gather>>

\* a value json.loads cannot decode
Garbage == "{"

\* another client of the shared store leaves an undecodable value under an entry
Corrupt ==
    /\ use_redis
    /\ \E k \in HashKeys :
        /\ redis[redis_key(k)] # NoEntry
        /\ redis[redis_key(k)].val # Garbage
        /\ redis' = [redis EXCEPT ![redis_key(k)].val = Garbage]
    /\ UNCHANGED <<use_redis, now, mem_cache, thread, calls, holders>>
    /\ UNCHANGED <<probe, startup, gather>>

\* a clear() that leaves the in-process map as it is
KeptMem == mem_cache

EmptyMem == [k \in MemKeys |-> NoEntry]

\* clear(): KEYS ai_cache:* and DELETE of the keys found (errors ignored), taken
\* as one command of the store, then _mem_cache.clear()
Clear ==
    /\ \E ok \in BOOLEAN :
        redis' = IF use_redis /\ ok THEN [k \in RedisKeys |-> NoEntry] ELSE redis
    /\ mem_cache' = EmptyMem
    /\ holders' = Held(redis', mem_cache')
    /\ UNCHANGED <<use_redis, now, thread, calls>>
    /\ UNCHANGED <<probe, startup, gather>>

\* get_cache_count() on store <<r, m>>: the keys under the prefix, or the size of
\* the in-process map when the store raises (ok = FALSE) or is not in use
get_cache_count(r, m, ok) ==
    IF use_redis /\ ok
    THEN Cardinality({k \in RedisKeys : r[k] # NoEntry})
    ELSE Cardinality({k \in MemKeys : m[k] # NoEntry})

Next ==
    \/ \E c \in Callers :
        \/ Call(c)
        \/ G_First(c) \/ G_Poll(c) \/ G_Lock(c)
        \/ M_In(c) \/ M_Read(c) \/ M_Del(c)
        \/ Acq(c) \/ A_In(c) \/ A_Ins(c)
        \/ Compute(c)
        \/ S_Set(c) \/ S_Del(c) \/ S_Mem(c)
        \/ Rel(c) \/ R_In(c) \/ R_Del(c)
        \/ Return(c)
    \/ Tick
    \/ Clear
    \/ Corrupt

Spec == Init /\ [][Next]_vars

TypeOK ==
    /\ use_redis \in BOOLEAN
    /\ now \in 0..MaxTime
    /\ calls \in 0..MaxCalls
    /\ \A c \in Callers : thread[c].waited \in 0..MaxPolls /\ thread[c].phase \in {1, 2}
    /\ \A k \in HashKeys : holders[k] \subseteq Callers

\* ---------------------------------------------------------------- a warm cache
\* The service some time after its start: an earlier request, long returned,
\* left its result in the cache at time 0.
WarmKey == hash_key(<<"summarize", "1">>)
WarmResult == Bilingual("X")

InitWarm ==
    /\ startup \in Startups
    /\ use_redis = use_redis_init(startup)
    /\ now = 0
    /\ redis = [k \in RedisKeys |->
                  IF use_redis /\ k = redis_key(WarmKey)
                  THEN Entry(json_dumps(WarmResult), TtlSeconds) ELSE NoEntry]
    /\ mem_cache = [k \in MemKeys |->
                      IF ~use_redis /\ k = WarmKey
                      THEN MemEntry(WarmResult, 0) ELSE NoEntry]
    /\ thread = [c \in Callers |-> Idle]
    /\ calls = 0
    /\ holders = [k \in HashKeys |-> {}]
    /\ probe = NoProbe
    /\ gather = NoGather

SpecWarm == InitWarm /\ [][Next]_vars

\* ---------------------------------------------------------------- _hash_key alone
\* Arguments of _hash_key: a string, or a number given by its decimal digits
PyString(x) == [ty |-> "str", s |-> x]
PyInt(x) == [ty |-> "int", s |-> x]

\* str(arg)
PyStr(x) == x.s

KeyElems ==
    {PyString(x) : x \in Ops \cup {"1", "a", "b", "a|b", "1|ask"}} \cup {PyInt("1")}

MaxArgs == 2

KeyTuples == UNION {[1..n -> KeyElems] : n \in 1..MaxArgs}

RECURSIVE Join(_)
\* "|".join(str(arg) for arg in args)
Join(args) ==
    IF Len(args) = 0 THEN ""
    ELSE IF Len(args) = 1 THEN PyStr(args[1])
    ELSE PyStr(args[1]) \o "|" \o Join(Tail(args))

\* a key string made of the last argument only
key_str_last(args) == PyStr(args[Len(args)])

\* key_str of _hash_key
key_str(args) == Join(args)

\* _hash_key of any argument tuple
hash_key_of(args) == Md5(key_str(args))

InitKeys ==
    /\ startup = "no_url"
    /\ use_redis = use_redis_init(startup)
    /\ now = 0
    /\ redis = [k \in RedisKeys |-> NoEntry]
    /\ mem_cache = [k \in MemKeys |-> NoEntry]
    /\ thread = [c \in Callers |-> Idle]
    /\ calls = 0
    /\ holders = [k \in HashKeys |-> {}]
    /\ \E a, b \in KeyTuples : probe = [NoProbe EXCEPT !.a = a, !.b = b]
    /\ gather = NoGather

HashA ==
    /\ probe.ka = ""
    /\ probe' = [probe EXCEPT !.ka = hash_key_of(probe.a)]
    /\ UNCHANGED <<use_redis, now, redis, mem_cache, thread, calls, holders, startup,
                 gather>>

HashB ==
    /\ probe.kb = ""
    /\ probe' = [probe EXCEPT !.kb = hash_key_of(probe.b)]
    /\ UNCHANGED <<use_redis, now, redis, mem_cache, thread, calls, holders, startup,
                 gather>>

NextKeys == HashA \/ HashB

SpecKeys == InitKeys /\ [][NextKeys]_vars

\* ---------------------------------------------------------------- claims
GetPcs == {"g_first", "g_poll", "g_lock", "m_in", "m_read", "m_del"}

\* acquire_lock has returned to caller c, which has not taken its next step
JustAcquired(c) ==
    \/ thread[c].pc = "compute" /\ thread[c].got_lock
    \/ thread[c].pc = GetStart /\ thread[c].phase = 2

AcquiredOn(k) == {c \in Callers : JustAcquired(c) /\ Key(thread[c]) = k}

\* C1 (as stated): in the shared-store variant, when two or more callers are
\* back from acquire_lock calls for one key that had no live lock record when
\* the calls reached the store, exactly one of them was told true and every
\* other one false.
C1_ExactlyOneAcquires ==
    use_redis =>
        \A k \in HashKeys :
            LET S == AcquiredOn(k) IN
            (Cardinality(S) >= 2 /\ \E c \in S : thread[c].acq_free)
                => Cardinality({c \in S : thread[c].got_lock}) = 1

\* C1 (amended): in the shared-store variant acquire_lock returns true exactly
\* when it finds no live lock record and the store does not raise, and a lock
\* record never has two callers that were told true: of concurrent calls for a
\* key without a record at most one returns true, and the others return false.
C1_OneCreatorPerRecord ==
    use_redis =>
        \A k \in HashKeys :
            /\ Cardinality(holders[k]) <= 1
            /\ \A c \in AcquiredOn(k) :
                thread[c].got_lock <=> (thread[c].acq_free /\ ~thread[c].acq_err)

\* C1 witness: two callers are back from acquire_lock for the same key, the one
\* that created the record with true, the one that found it with false.
C1_TwoConcurrentAcquires ==
    /\ use_redis
    /\ \E c1, c2 \in Callers :
        /\ c1 # c2
        /\ c1 \in AcquiredOn(Key(thread[c2])) /\ JustAcquired(c2)
        /\ thread[c1].got_lock /\ thread[c1].acq_free
        /\ ~thread[c2].got_lock /\ ~thread[c2].acq_free /\ ~thread[c2].acq_err
        /\ holders[Key(thread[c1])] = {c1}

\* C2: in the local-store variant at most one of the acquire_lock calls made on
\* one lock record returns true, whatever the interleaving of the membership
\* tests and the inserts.
C2_LocalAtMostOneAcquires ==
    ~use_redis => \A k \in HashKeys : Cardinality(holders[k]) <= 1

\* C3: in the shared-store variant a caller that did not acquire the lock never
\* leaves its poll, inside the poll window, to run its own computation while a
\* (non-empty) value published by set() is in the store: it returns that value.
C3_WaiterReturnsPublished ==
    [][\A c \in Callers :
        LET rk == redis_key(Key(thread[c])) IN
        (/\ use_redis
         /\ thread[c].phase = 2
         /\ thread[c].pc \in GetPcs
         /\ thread'[c].pc = "compute"
         /\ thread'[c].waited < MaxPolls)
        => redis_get_value(redis, rk) = None \/ ~Truthy(redis_get_value(redis, rk))]_vars

\* C4: in the local-store variant a caller whose acquire_lock returned false has
\* not started its own computation while the owner of the lock is still
\* computing and the poll window has not elapsed.
C4_LocalWaiterDefers ==
    ~use_redis =>
        \A c, o \in Callers :
            ~(/\ c # o
              /\ Key(thread[c]) = Key(thread[o])
              /\ thread[o].pc = "compute" /\ thread[o].got_lock
              /\ thread[c].pc = "compute" /\ thread[c].phase = 2
              /\ thread[c].waited < MaxPolls)

\* C5: when an orchestration function whose acquire_lock returned true returns
\* normally, the lock record of its key is absent at that moment (local store).
C5_LockAbsentAtReturn ==
    [][\A c \in Callers :
        (/\ ~use_redis
         /\ thread[c].got_lock
         /\ thread[c].pc # "done"
         /\ thread'[c].pc = "done")
        => ~LockIn(redis', mem_cache', Key(thread[c]))]_vars

\* C6: when an exception leaves an orchestration function that holds the lock,
\* the lock record of its key has been removed.
C6_LockAbsentAtRaise ==
    [][\A c \in Callers :
        (/\ thread[c].got_lock
         /\ thread[c].pc # "raised"
         /\ thread'[c].pc = "raised")
        => ~LockIn(redis', mem_cache', Key(thread[c]))]_vars

\* time at which the lock record of caller t's key was created
LockCreatedAt(t) ==
    IF use_redis THEN redis[redis_lock_key(Key(t))].exp - lock_ttl(t.op)
    ELSE mem_cache[mem_lock_key(Key(t))].timestamp

\* C7: acquire_lock returns false only while a lock record younger than lock_ttl
\* is in place (or the store raised): once lock_ttl has elapsed since the
\* acquisition, an acquire_lock for the key returns true, in both variants.
C7_LockSelfHeals ==
    [][\A c \in Callers :
        (/\ thread[c].pc \in {"acq", "a_in"}
         /\ thread'[c].phase = 2
         /\ ~thread'[c].acq_err)
        => /\ LockPresent(Key(thread[c]))
           /\ now < LockCreatedAt(thread[c]) + lock_ttl(thread[c].op)]_vars

\* C8: the get() of a call that failed to acquire the lock ends with the call
\* returning a cached value or starting its own computation.
C8_WaiterReturnsOrComputes ==
    [][\A c \in Callers :
        (/\ thread[c].phase = 2
         /\ thread[c].pc \in GetPcs
         /\ thread'[c].pc \notin GetPcs)
        => thread'[c].pc \in {"done", "compute"}]_vars

\* C9: in both variants, right after set(v, a) has written, get(a) returns v.
C9_RoundTrip ==
    [][\A c \in Callers :
        (/\ thread[c].pc \in {"s_set", "s_mem"}
         /\ thread'[c].pc # thread[c].pc)
        => get_value(redis', mem_cache', Key(thread[c]), now') = thread[c].result]_vars

\* C10: in the local-store variant a get(a) that ends returns a value or absent:
\* the result of the entry when less than ttl_seconds have passed since its
\* set(), leaving the entry in place, and absent when ttl_seconds or more have
\* passed, deleting that expired entry.
C10_LocalExpiry ==
    [][\A c \in Callers :
        LET t == thread[c]
            e == mem_cache[Key(t)] IN
        (/\ ~use_redis
         /\ t.pc \in GetPcs
         /\ thread'[c].pc \notin GetPcs)
        => /\ thread'[c].pc # "raised"
           /\ e # NoEntry =>
                IF Fresh(e, now)
                THEN /\ mem_cache'[Key(t)] = e
                     /\ Truthy(e.result) =>
                            thread'[c].pc = "done" /\ thread'[c].ret = e.result
                ELSE /\ mem_cache'[Key(t)] = NoEntry
                     /\ thread'[c].pc # "done"]_vars

\* no key has a value for get(), and get_cache_count() is 0, on store <<r, m>>
AllAbsent(r, m, t) ==
    /\ \A k \in HashKeys : get_value(r, m, k, t) = None
    /\ \A ok \in BOOLEAN : get_cache_count(r, m, ok) = 0

C12_StoreErrorsContained ==
    [][\A c \in Callers :
        (use_redis /\ thread[c].pc # "raised" /\ thread'[c].pc = "raised")
        => thread'[c].ret # StoreError]_vars

\* C13: in the shared-store variant, when the value under the key cannot be
\* decoded, the read of get() that meets it (the first read or a read of the
\* poll loop) makes get() return absent: the caller goes on as after a miss
\* (to acquire_lock after the first get(), to its computation after the second)
\* and no error leaves get() other than an error of the store itself.
C13_UndecodableIsAbsent ==
    [][\A c \in Callers :
        LET t == thread[c]
            rk == redis_key(Key(t)) IN
        (/\ use_redis
         /\ t.pc \in {"g_first", "g_poll"}
         /\ thread'[c] # t
         /\ redis[rk] # NoEntry
         /\ json_loads(redis[rk].val) = JsonError)
        => /\ redis_get_value(redis, rk) = None
           /\ \/ thread'[c].pc = "raised" /\ thread'[c].ret = StoreError
              \/ thread'[c].pc = (IF t.phase = 1 THEN "acq" ELSE "compute")]_vars

\* C13 witness: a caller whose get() has just returned stands before
\* acquire_lock while the value under its key is undecodable.
C13_PassedUndecodable ==
    \E c \in Callers :
        /\ use_redis
        /\ thread[c].pc = "acq"
        /\ thread[c].waited = 0
        /\ redis[redis_key(Key(thread[c]))] # NoEntry
        /\ redis[redis_key(Key(thread[c]))].val = Garbage

\* C14: get() never sleeps or waits, in either variant: no caller has slept a
\* poll interval inside get().
C14_GetNeverSleeps ==
    \A c \in Callers : thread[c].waited = 0

\* C15: the set() of a caller whose acquire_lock returned false (a waiter that
\* went on to compute) leaves the lock record of its key in place: that record
\* was created by another caller (shared store, where set() deletes the record).
C15_OnlyOwnerRemovesLock ==
    [][\A c \in Callers :
        LET t == thread[c] IN
        (/\ use_redis
         /\ t.pc = "s_del"
         /\ ~t.got_lock
         /\ thread'[c] # t
         /\ LockPresent(Key(t))
         /\ ~LockIn(redis', mem_cache', Key(t)))
        => c \in holders[Key(t)]]_vars

\* C16: in both variants, when set() returns, the entry of its key is present
\* and the lock record of that key is absent.
C16_SetPublishesAndUnlocks ==
    [][\A c \in Callers :
        LET t == thread[c]
            SetSteps == {"s_set", "s_del", "s_mem"} IN
        (t.pc \in SetSteps /\ thread'[c].pc \notin SetSteps)
        => /\ IF use_redis THEN redis'[redis_key(Key(t))] # NoEntry
              ELSE mem_cache'[Key(t)] # NoEntry
           /\ ~LockIn(redis', mem_cache', Key(t))]_vars

\* C17: a call whose first get() reads the cached empty list, still unexpired,
\* returns it and goes neither to acquire_lock nor to a computation.
C17_EmptyResultServed ==
    [][\A c \in Callers :
        LET t == thread[c] IN
        (/\ t.pc \in {"g_first", "g_poll", "m_read"}
         /\ t.phase = 1
         /\ get_value(redis, mem_cache, Key(t), now) = EmptyList
         /\ thread'[c] # t
         /\ thread'[c].pc # "raised")
        => thread'[c].pc = "done" /\ thread'[c].ret = EmptyList]_vars

\* C18: two different argument tuples never give _hash_key the same string to
\* digest, also when an element contains the delimiter or when the tuples
\* differ only in the type of an element.
\* (Md5 is collision-free here, so equal keys mean equal digested strings.)
C18_KeyStringInjective ==
    (probe.ka # "" /\ probe.kb # "" /\ probe.a # probe.b)
        => key_str(probe.a) # key_str(probe.b) /\ probe.ka # probe.kb

\* the argument tuple of an orchestration function: (operation name, query)
OpTuple(x) == Len(x) = 2 /\ x[1] \in {PyString(o) : o \in Ops}

\* C19: the keys (and the names in the shared store) computed for (op1, q1) and
\* (op2, q2) differ whenever op1 and op2 are different operation names of the
\* orchestration functions, whatever the queries: get() and set() index the
\* cache by that key alone, so a value set under one is never read under the
\* other.
C19_OpsNeverAlias ==
    (/\ probe.ka # "" /\ probe.kb # ""
     /\ OpTuple(probe.a) /\ OpTuple(probe.b)
     /\ probe.a[1] # probe.b[1])
    => /\ probe.ka # probe.kb
       /\ redis_key(probe.ka) # redis_key(probe.kb)
       /\ mem_lock_key(probe.ka) # probe.kb

\* C19 witness: both keys are computed for two operations given the same query,
\* one that contains the delimiter and an operation name.
C19_TwoOpsSameQuery ==
    /\ probe.ka # "" /\ probe.kb # ""
    /\ OpTuple(probe.a) /\ OpTuple(probe.b)
    /\ probe.a[1] # probe.b[1]
    /\ probe.a[2] = PyString("1|ask") /\ probe.b[2] = probe.a[2]

\* C20: every write of set() replaces the entry of its key by exactly the
\* payload of that set(), whatever entry another set() left there before: the
\* entry holds the payload of the set() the store sequenced last.
C20_LastWriterWins ==
    [][\A c \in Callers :
        LET t == thread[c]
            rk == redis_key(Key(t)) IN
        /\ (t.pc = "s_set" /\ thread'[c].pc = "s_del")
            => /\ redis'[rk] = Entry(json_dumps(t.result), now + TtlSeconds)
               /\ Decode(redis'[rk].val) = t.result
        /\ (t.pc = "s_mem" /\ thread'[c] # t)
            => mem_cache'[Key(t)] = MemEntry(t.result, now)]_vars

\* C20 witness: two callers have written different payloads under one key (both
\* are between the SET and the DELETE of set()), and the entry holds one of the
\* two payloads whole.
C20_TwoSetsOneKey ==
    \E c1, c2 \in Callers :
        /\ c1 # c2
        /\ thread[c1].pc = "s_del" /\ thread[c2].pc = "s_del"
        /\ Key(thread[c1]) = Key(thread[c2])
        /\ thread[c1].result # thread[c2].result
        /\ redis[redis_key(Key(thread[c1]))] # NoEntry
        /\ Decode(redis[redis_key(Key(thread[c1]))].val) = thread[c1].result

\* C21: the variant in use is the one the constructor's probe decided (shared
\* store exactly when a URL is configured and the ping succeeded; every outcome
\* of the probe yields a working cache), and it stays so whatever the later
\* operations meet.
C21_VariantFixedByProbe ==
    /\ use_redis <=> (startup = "ping_ok")
    /\ startup \in {"no_url", "ping_fails", "ping_ok"}

\* C21 witness: in the shared-store variant a call has ended with an error of the
\* store and a set() has fallen back to the in-process map; in the local variant
\* chosen after a failed ping the cache holds an entry.
C21_ErrorsMetVariantKept ==
    \/ /\ startup = "ping_ok" /\ use_redis
       /\ \E c \in Callers : thread[c].pc = "raised" /\ thread[c].ret = StoreError
       /\ \E k \in HashKeys : mem_cache[k] # NoEntry
    \/ /\ startup = "ping_fails" /\ ~use_redis
       /\ \E k \in HashKeys : mem_cache[k] # NoEntry
       /\ \E c \in Callers : thread[c].pc = "raised"

\* C22: in the local-store variant no step of a get() removes an entry that has
\* not reached ttl_seconds: a value written by set() stays readable until it
\* expires, whatever get() calls run at the same time.
C22_GetKeepsFreshEntry ==
    [][\A c \in Callers :
        LET t == thread[c] IN
        (/\ ~use_redis
         /\ t.pc \in {"m_in", "m_read", "m_del"}
         /\ thread'[c] # t
         /\ mem_cache[Key(t)] # NoEntry
         /\ Fresh(mem_cache[Key(t)], now))
        => mem_cache'[Key(t)] = mem_cache[Key(t)]]_vars

\* callers in the owner phase for hash key k: acquire_lock returned true and the
\* function has neither released nor returned
Owners(k) == {c \in Callers : thread[c].got_lock /\ Key(thread[c]) = k}

\* C23: in the shared-store variant at most one caller at a time is in the owner
\* phase for a key.
C23_OneOwnerPerKey ==
    use_redis => \A k \in HashKeys : Cardinality(Owners(k)) <= 1

\* C24: within one call of answer_revision_questions (lock_ttl = 60 s, longer
\* than the poll window) a caller sleeps at most one poll window in all, its
\* get() calls taken together.
C24_OnePollWindowPerCall ==
    \A c \in Callers :
        thread[c].op = "revision" => thread[c].slept <= MaxPolls

\* C25: when a lock owner whose computation did not raise returns, its set() has
\* made the key PRESENT: get() for the key has a value to return.
C25_OwnerLeavesKeyPresent ==
    [][\A c \in Callers :
        LET t == thread[c] IN
        (/\ t.got_lock
         /\ ~t.exc
         /\ t.pc # "done"
         /\ thread'[c].pc = "done")
        => get_value(redis', mem_cache', Key(t), now') # None]_vars

\* C26: in the shared-store variant get() sleeps only at a poll that found no
\* entry and a lock record in place; a poll that reads the entry, or finds the
\* lock record gone, ends the get() (leaving only if the store itself raises
\* otherwise), so a get() on a key without entry and lock returns absent
\* without having slept.
C26_PollsOnlyWhileLocked ==
    [][\A c \in Callers :
        LET t == thread[c]
            rk == redis_key(Key(t))
            gone == {"raised", "done", "acq", "compute"} IN
        /\ (t.pc = "g_lock" /\ thread'[c].slept > t.slept)
            => redis[rk \o ":lock"] # NoEntry
        /\ (t.pc = "g_lock" /\ thread'[c] # t /\ redis[rk \o ":lock"] = NoEntry)
            => thread'[c].pc \in gone /\ thread'[c].slept <= t.slept
        /\ (t.pc \in {"g_first", "g_poll"} /\ thread'[c] # t /\ redis[rk] # NoEntry)
            => thread'[c].pc \in gone /\ thread'[c].slept <= t.slept
        /\ (t.pc \in {"g_first", "g_poll"} /\ thread'[c] # t)
            => thread'[c].slept <= t.slept]_vars

\* C26 witness: a get() on a key with neither entry nor lock record has returned
\* absent without a sleep, and its caller stands before acquire_lock.
C26_AbsentWithoutSleep ==
    \E c \in Callers :
        /\ use_redis
        /\ thread[c].pc = "acq"
        /\ thread[c].slept = 0
        /\ redis[redis_key(Key(thread[c]))] = NoEntry
        /\ redis[redis_lock_key(Key(thread[c]))] = NoEntry

\* C27: when the first get() of an orchestration function reads a non-empty
\* cached value, the function returns that value at that very step, never
\* reaching acquire_lock or the computation, and the step leaves every cache
\* entry and every lock record as it was (the read itself failing with a store
\* error is the only other way out of the step).
C27_HitReturnsCachedValue ==
    [][\A c \in Callers :
        LET t == thread[c]
            v == get_value(redis, mem_cache, Key(t), now) IN
        /\ (/\ t.pc \in {"g_first", "g_poll", "m_read"}
            /\ t.phase = 1
            /\ thread'[c] # t
            /\ Truthy(v))
            => /\ \/ thread'[c] = StoreRaised(t)
                  \/ /\ thread'[c].pc = "done"
                     /\ thread'[c].ret = v
                     /\ thread'[c].served = 1
               /\ ~thread'[c].got_lock
               /\ redis' = redis
               /\ mem_cache' = mem_cache
               /\ holders' = holders
        /\ thread'[c].served = 1 /\ t.served = 0
            => /\ t.pc \in {"g_first", "g_poll", "m_read"}
               /\ ~t.got_lock
               /\ thread'[c].ret = v
               /\ redis' = redis
               /\ mem_cache' = mem_cache
               /\ holders' = holders]_vars

\* C27 witness: a call has returned the value its first get() found in the
\* cache, and the entry it was served from is still there.
C27_ServedFromCache ==
    \E c \in Callers :
        /\ thread[c].pc = "done"
        /\ thread[c].served = 1
        /\ Truthy(thread[c].ret)
        /\ get_value(redis, mem_cache, Key(thread[c]), now) = thread[c].ret

\* C28: get_cache_count(), when the store answers, is the number of distinct
\* keys under which set() has a result stored; lock records are not counted.
C28_CountIsStoredResults ==
    get_cache_count(redis, mem_cache, TRUE) =
        Cardinality({k \in HashKeys :
                       IF use_redis THEN redis[redis_key(k)] # NoEntry
                                    ELSE mem_cache[k] # NoEntry})

\* C29: when the shared-store SET inside set(v, a) raises and set() falls back
\* to the in-process map, a get(a) run right after that set() returns v.
C29_FallbackValueReadable ==
    [][\A c \in Callers :
        LET t == thread[c] IN
        (/\ use_redis
         /\ t.pc = "s_set"
         /\ thread'[c] # t
         /\ thread'[c].pc # "s_del")
            => get_value(redis', mem_cache', Key(t), now') = t.result]_vars

\* C30: in the local-store variant no step of get() after its membership test
\* ends in an exception: the read and the delete of an expired entry return a
\* value or absent whatever the other callers did in between.
C30_LocalGetNeverRaises ==
    [][\A c \in Callers :
        (~use_redis /\ thread[c].pc \in {"m_in", "m_read", "m_del"})
            => thread'[c].pc # "raised"]_vars

\* ---------------------------------------------------------------- the question tasks
\* One answer_revision_questions_async call that owns its key and has found
\* gather.n filtered questions (distinct: duplicates were dropped), from the
\* creation of the semaphore to the end of asyncio.run. Questions are named by
\* their index in "filtered". A task is
\*   new        created by gather, not yet run
\*   waiting    suspended in "async with semaphore"
\*   running    inside the semaphore, its chain.invoke in an executor thread
\*   done       returned its answer
\*   failed     raised
\*   cancelled  cancelled before it got the semaphore
\*   orphan     cancelled while its executor thread still runs chain.invoke
\*   dropped    its executor thread ended after the cancellation

\* asyncio.Semaphore(5)
SemLimit == 5

\* a semaphore that lets every task through
SemUnbounded(v) == TRUE

\* Semaphore.acquire() does not block
SemOpen(v) == v > 0

Questions == 1..gather.n

\* completion invocations (chain.invoke) under way
InFlight == Cardinality({i \in 1..MaxQuestions : gather.task[i] \in {"running", "orphan"}})

InitGather ==
    /\ startup = "no_url"
    /\ use_redis = use_redis_init(startup)
    /\ now = 0
    /\ redis = [k \in RedisKeys |-> NoEntry]
    /\ mem_cache = [k \in MemKeys |-> NoEntry]
    /\ thread = [c \in Callers |-> Idle]
    /\ calls = 0
    /\ holders = [k \in HashKeys |-> {}]
    /\ probe = NoProbe
    /\ \E n \in 1..MaxQuestions :
        gather = [NoGather EXCEPT
                    !.n = n, !.state = "pending", !.sem = SemLimit,
                    !.task = [i \in 1..MaxQuestions |-> IF i <= n THEN "new" ELSE "off"]]

\* the first step of task i (tasks take their first step in creation order):
\* "async with semaphore" lets it through or suspends it behind the others
Q_Start(i) ==
    /\ gather.state = "pending"
    /\ gather.task[i] = "new"
    /\ \A j \in 1..(i - 1) : gather.task[j] # "new"
    /\ gather' =
         IF SemOpen(gather.sem) /\ gather.waiters = <<>>
         THEN [gather EXCEPT !.task[i] = "running", !.sem = gather.sem - 1,
                             !.invoked[i] = gather.invoked[i] + 1]
         ELSE [gather EXCEPT !.task[i] = "waiting",
                             !.waiters = Append(gather.waiters, i)]
    /\ UNCHANGED <<use_redis, now, redis, mem_cache, thread, calls, holders, probe, startup>>

\* the first suspended task is woken by a release and starts its invocation
Q_Wake ==
    /\ gather.state = "pending"
    /\ gather.waiters # <<>>
    /\ SemOpen(gather.sem)
    /\ LET i == Head(gather.waiters) IN
        gather' = [gather EXCEPT !.task[i] = "running", !.sem = gather.sem - 1,
                                 !.invoked[i] = gather.invoked[i] + 1,
                                 !.waiters = Tail(gather.waiters)]
    /\ UNCHANGED <<use_redis, now, redis, mem_cache, thread, calls, holders, probe, startup>>

\* the invocation of task i returns or raises; leaving "async with" releases
Q_Finish(i) ==
    /\ gather.state = "pending"
    /\ gather.task[i] = "running"
    /\ \A j \in 1..MaxQuestions : gather.task[j] # "new"
    /\ \E ok \in BOOLEAN :
        gather' = [gather EXCEPT !.task[i] = IF ok THEN "done" ELSE "failed",
                                 !.sem = gather.sem + 1]
    /\ UNCHANGED <<use_redis, now, redis, mem_cache, thread, calls, holders, probe, startup>>

\* gather has every result: "results = await asyncio.gather(...)" returns them
\* in the order of "filtered"
Gather_Return ==
    /\ gather.state = "pending"
    /\ \A i \in Questions : gather.task[i] = "done"
    /\ gather' = [gather EXCEPT !.state = "returned",
                                !.results = [i \in Questions |-> i]]
    /\ UNCHANGED <<use_redis, now, redis, mem_cache, thread, calls, holders, probe, startup>>

\* a task has raised: gather raises, the function raises through its finally
\* block and asyncio.run cancels the tasks that are left; a thread already in
\* chain.invoke runs on
Gather_Raise ==
    /\ gather.state = "pending"
    /\ \E i \in Questions : gather.task[i] = "failed"
    /\ gather' = [gather EXCEPT
                    !.state = "raised",
                    !.waiters = <<>>,
                    !.task = [i \in 1..MaxQuestions |->
                                CASE gather.task[i] \in {"new", "waiting"} -> "cancelled"
                                  [] gather.task[i] = "running" -> "orphan"
                                  [] OTHER -> gather.task[i]]]
    /\ UNCHANGED <<use_redis, now, redis, mem_cache, thread, calls, holders, probe, startup>>

\* the executor thread of a cancelled task ends; its result goes nowhere
Q_Drop(i) ==
    /\ gather.task[i] = "orphan"
    /\ gather' = [gather EXCEPT !.task[i] = "dropped"]
    /\ UNCHANGED <<use_redis, now, redis, mem_cache, thread, calls, holders, probe, startup>>

NextGather ==
    \/ \E i \in 1..MaxQuestions : Q_Start(i) \/ Q_Finish(i) \/ Q_Drop(i)
    \/ Q_Wake
    \/ Gather_Return
    \/ Gather_Raise

SpecGather == InitGather /\ [][NextGather]_vars

\* the call has ended and none of its invocations is still under way
GatherEnded == gather.state \in {"returned", "raised"} /\ InFlight = 0

\* C31 (as stated): at most 5 completion invocations are in flight at any
\* moment, and once the call has ended every filtered question has been
\* answered exactly once.
C31_EveryQuestionAnswered ==
    /\ InFlight <= SemLimit
    /\ GatherEnded =>
        \A i \in Questions : gather.task[i] = "done" /\ gather.invoked[i] = 1

\* C31 (amended): at most 5 completion invocations are in flight at any
\* moment, no question is ever handed to more than one invocation, and a call
\* that returns has answered every filtered question exactly once, in order.
C31_BoundedAndAnsweredIfReturned ==
    /\ InFlight <= SemLimit
    /\ \A i \in 1..MaxQuestions : gather.invoked[i] <= 1
    /\ gather.state = "returned" =>
        /\ gather.results = [i \in Questions |-> i]
        /\ \A i \in Questions : gather.task[i] = "done" /\ gather.invoked[i] = 1

\* C31 witness: a call with more questions than the semaphore admits has
\* returned all its answers.
C31_MoreThanFiveAnswered ==
    /\ gather.n > SemLimit
    /\ gather.state = "returned"
    /\ Len(gather.results) = gather.n
    /\ \A i \in Questions : gather.invoked[i] = 1

\* the entry get() looks at for hash key k in store <<r, m>>
EntryAt(r, m, k) == IF use_redis THEN r[redis_key(k)] ELSE m[k]

\* the time from which get() no longer returns entry e
ExpiryOf(e) == IF use_redis THEN e.exp ELSE e.timestamp + TtlSeconds

\* C32: an entry expires ttl_seconds after the most recent set() for its key,
\* whatever the key: only a set() gives an entry its expiry time, which is then
\* the time of that set() plus ttl_seconds (a new set() restarts it), no entry
\* ever expires later than ttl_seconds from now, and a step of get() leaves an
\* entry as it is or removes it, never extends it.
C32_LifetimeFromLastSet ==
    [][\A k \in HashKeys :
        LET e == EntryAt(redis, mem_cache, k)
            f == EntryAt(redis', mem_cache', k)
            sets == {c \in Callers :
                       /\ Key(thread[c]) = k
                       /\ thread'[c] # thread[c]
                       /\ \/ thread[c].pc = "s_mem"
                          \/ thread[c].pc = "s_set" /\ thread'[c].pc = "s_del"} IN
        /\ e # NoEntry => ExpiryOf(e) <= now + TtlSeconds
        /\ (f # NoEntry /\ (e = NoEntry \/ ExpiryOf(f) # ExpiryOf(e))) => sets # {}
        /\ sets # {} => f # NoEntry /\ ExpiryOf(f) = now + TtlSeconds
        /\ \A c \in Callers :
            (thread[c].pc \in GetPcs /\ thread'[c] # thread[c]) => f \in {e, NoEntry}]_vars

\* C32 witness: a call was served from the cache by an entry set earlier, and
\* the entry still expires ttl_seconds after its set(), sooner than
\* ttl_seconds from now.
C32_HitLeftExpiryAlone ==
    \E c \in Callers :
        LET e == EntryAt(redis, mem_cache, Key(thread[c])) IN
        /\ thread[c].pc = "done"
        /\ thread[c].served = 1
        /\ e # NoEntry
        /\ ExpiryOf(e) < now + TtlSeconds
        /\ ExpiryOf(e) > now

\* the entry and the lock record of hash key k, in both stores
Records(r, m, k) ==
    <<r[redis_key(k)], r[redis_lock_key(k)], m[k], m[mem_lock_key(k)]>>

\* C33: a step of get, set, acquire_lock or release_lock made by a call for one
\* key leaves the entry and the lock record of every other key as they were.
C33_OtherKeysUntouched ==
    [][\A c \in Callers :
        thread'[c] # thread[c] =>
            \A k \in HashKeys \ {hash_key(<<thread[c].op, thread[c].query>>)} :
                Records(redis', mem_cache', k) = Records(redis, mem_cache, k)]_vars

\* C33 witness: a call has stored its result under its key while the entry or
\* the lock record of another key is in the store.
C33_TwoKeysInStore ==
    \E c \in Callers, k \in HashKeys :
        /\ k # Key(thread[c])
        /\ thread[c].pc \in {"done", "rel", "r_in", "r_del"}
        /\ EntryAt(redis, mem_cache, Key(thread[c])) # NoEntry
        /\ EntryAt(redis, mem_cache, k) # NoEntry \/ LockPresent(k)
====
